---- MODULE Spec2Model ----
(***************************************************************************)
(* Model of crates/sindri_client/src/main.rs: option parsing, the steps   *)
(* of init_wgpu, the graphics context (Gfx) with its resize and render     *)
(* operations, and the event-loop closure of main that dispatches window   *)
(* events to them.                                                         *)
(*                                                                         *)
(* Every handler of the closure is one action.  The backend calls a        *)
(* handler makes (surface.configure, get_current_texture, draw, submit,    *)
(* present, ...) are recorded, in order, in `calls`.  The window's size    *)
(* and the outcome of get_current_texture are inputs of the environment.   *)
(* winit's elwt.exit() is modelled as terminal: once it was called no      *)
(* further event is dispatched to the closure.                             *)
(***************************************************************************)
EXTENDS Integers, Sequences, FiniteSets

VARIABLES phase, gpu_opts, adapter_request, startup,
          config, render_pipeline, vertex_buffer, vertex_count,
          exiting, redraw_requested,
          calls, last, prev, last_nonzero, lost_streak

vars == <<phase, gpu_opts, adapter_request, startup,
          config, render_pipeline, vertex_buffer, vertex_count,
          exiting, redraw_requested,
          calls, last, prev, last_nonzero, lost_streak>>

\* what init_wgpu leaves behind and no handler assigns
startup_state == <<phase, gpu_opts, adapter_request, startup,
                   render_pipeline, vertex_buffer, vertex_count>>

----------------------------------------------------------------------------
(* Bounds and input domains *)

MaxDim == 2

MaxArgs == 2

MaxStreak == 2

Dims == 0..MaxDim

SurfaceErrors == {"Timeout", "Outdated", "Lost", "OutOfMemory", "Other"}

Outcomes == {"Ok"} \cup SurfaceErrors

SrgbFormats == {"Bgra8UnormSrgb", "Rgba8UnormSrgb"}

CapsFormats == {<<"Bgra8UnormSrgb">>, <<"Bgra8Unorm", "Bgra8UnormSrgb">>, <<"Bgra8Unorm">>}

CapsAlphaModes == {<<"Opaque">>, <<"Auto", "Opaque">>}

ArgTokens == {"--fallback-gpu", "--low-power", "--verbose"}

ArgLists == UNION {[1..n -> ArgTokens] : n \in 0..MaxArgs}

----------------------------------------------------------------------------
(* Helpers *)

Max(a, b) == IF a >= b THEN a ELSE b

Call(op, a, b) == [op |-> op, a |-> a, b |-> b]

RECURSIVE CountOp(_, _)
CountOp(s, op) ==
    IF s = <<>> THEN 0
    ELSE (IF Head(s).op = op THEN 1 ELSE 0) + CountOp(Tail(s), op)

IndexOf(s, op) == CHOOSE i \in 1..Len(s) : s[i].op = op

Handled(ev, w, h, outcome, resized, logged, exit_called) ==
    [ev |-> ev, w |-> w, h |-> h, outcome |-> outcome,
     resized |-> resized, logged |-> logged, exit_called |-> exit_called]

----------------------------------------------------------------------------
(* parse_gpu_options and the adapter request of init_wgpu *)

RECURSIVE parse_args(_, _)
parse_args(opts, args) ==
    IF args = <<>> THEN opts
    ELSE parse_args(CASE Head(args) = "--fallback-gpu" -> [opts EXCEPT !.fallback = TRUE]
                      [] Head(args) = "--low-power" -> [opts EXCEPT !.low_power = TRUE]
                      [] OTHER -> opts,
                    Tail(args))

parse_gpu_options(args) == parse_args([fallback |-> FALSE, low_power |-> FALSE], args)

request_adapter_options_swapped(opts) ==
    [power_preference |-> IF opts.fallback THEN "LowPower" ELSE "HighPerformance",
     compatible_surface |-> "surface",
     force_fallback_adapter |-> opts.low_power]

request_adapter_options(opts) ==
    [power_preference |-> IF opts.low_power THEN "LowPower" ELSE "HighPerformance",
     compatible_surface |-> "surface",
     force_fallback_adapter |-> opts.fallback]

NoOptions == [fallback |-> FALSE, low_power |-> FALSE]

NoRequest ==
    [power_preference |-> "none", compatible_surface |-> "none",
     force_fallback_adapter |-> FALSE]

----------------------------------------------------------------------------
(* init_wgpu: what each expect() does with the result of its step *)

after_step_ignore_failure(next_phase, ok) == next_phase

after_step(next_phase, ok) == IF ok THEN next_phase ELSE "aborted"

step_calls(op, ok) ==
    IF ok THEN <<Call(op, 0, 0)>> ELSE <<Call(op, 0, 0), Call("panic", 0, 0)>>

----------------------------------------------------------------------------
(* init_wgpu: the surface configuration, the pipeline and the vertex data *)

is_srgb(f) == f \in SrgbFormats

select_format(formats) ==
    IF \E i \in 1..Len(formats) : is_srgb(formats[i])
    THEN formats[CHOOSE i \in 1..Len(formats) :
                    /\ is_srgb(formats[i])
                    /\ \A j \in 1..(i - 1) : ~is_srgb(formats[j])]
    ELSE formats[1]

initial_config_nofloor(size_w, size_h, formats, alpha_modes) ==
    [usage |-> "RENDER_ATTACHMENT",
     format |-> select_format(formats),
     width |-> size_w,
     height |-> size_h,
     present_mode |-> "Fifo",
     alpha_mode |-> alpha_modes[1],
     desired_maximum_frame_latency |-> 2]

initial_config(size_w, size_h, formats, alpha_modes) ==
    [usage |-> "RENDER_ATTACHMENT",
     format |-> select_format(formats),
     width |-> Max(size_w, 1),
     height |-> Max(size_h, 1),
     present_mode |-> "Fifo",
     alpha_mode |-> alpha_modes[1],
     desired_maximum_frame_latency |-> 2]

NoConfig ==
    [usage |-> "none", format |-> "none", width |-> 0, height |-> 0,
     present_mode |-> "none", alpha_mode |-> "none",
     desired_maximum_frame_latency |-> 0]

build_pipeline_fixed_format(cfg) ==
    [format |-> "Bgra8UnormSrgb", blend |-> "REPLACE", write_mask |-> "ALL"]

build_pipeline(cfg) ==
    [format |-> cfg.format, blend |-> "REPLACE", write_mask |-> "ALL"]

NoPipeline == [format |-> "none", blend |-> "none", write_mask |-> "none"]

vertices_quad == <<<<0, 6>>, <<-6, -6>>, <<6, -6>>, <<6, 6>>>>

\* positions in tenths: (0.0, 0.6), (-0.6, -0.6), (0.6, -0.6)
vertices == <<<<0, 6>>, <<-6, -6>>, <<6, -6>>>>

----------------------------------------------------------------------------
(* Gfx::resize and Gfx::render *)

resize_no_configure(cfg, width, height) ==
    IF width = 0 \/ height = 0
    THEN [config |-> cfg, calls |-> <<>>]
    ELSE [config |-> [cfg EXCEPT !.width = width, !.height = height], calls |-> <<>>]

resize_no_guard(cfg, width, height) ==
    LET c == [cfg EXCEPT !.width = width, !.height = height]
    IN  [config |-> c, calls |-> <<Call("configure", c.width, c.height)>>]

resize_and_guard(cfg, width, height) ==
    IF width = 0 /\ height = 0
    THEN [config |-> cfg, calls |-> <<>>]
    ELSE LET c == [cfg EXCEPT !.width = width, !.height = height]
         IN  [config |-> c, calls |-> <<Call("configure", c.width, c.height)>>]

resize(cfg, width, height) ==
    IF width = 0 \/ height = 0
    THEN [config |-> cfg, calls |-> <<>>]
    ELSE LET c == [cfg EXCEPT !.width = width, !.height = height]
         IN  [config |-> c, calls |-> <<Call("configure", c.width, c.height)>>]

render_submit_early(outcome, vcount) ==
    IF outcome # "Ok"
    THEN [result |-> outcome, calls |-> <<Call("get_current_texture", 0, 0)>>]
    ELSE [result |-> "Ok",
          calls |-> << Call("get_current_texture", 0, 0),
                       Call("create_view", 0, 0),
                       Call("create_command_encoder", 0, 0),
                       Call("begin_render_pass", 0, 0),
                       Call("set_pipeline", 0, 0),
                       Call("set_vertex_buffer", 0, 0),
                       Call("draw", vcount, 1),
                       Call("finish", 0, 0),
                       Call("submit", 0, 0),
                       Call("end_render_pass", 0, 0),
                       Call("present", 0, 0) >>]

render_record_on_failure(outcome, vcount) ==
    [result |-> outcome,
     calls |-> << Call("get_current_texture", 0, 0),
                  Call("create_view", 0, 0),
                  Call("create_command_encoder", 0, 0),
                  Call("begin_render_pass", 0, 0),
                  Call("set_pipeline", 0, 0),
                  Call("set_vertex_buffer", 0, 0),
                  Call("draw", vcount, 1),
                  Call("end_render_pass", 0, 0),
                  Call("finish", 0, 0),
                  Call("submit", 0, 0) >>
               \o (IF outcome = "Ok" THEN <<Call("present", 0, 0)>> ELSE <<>>)]

render_reconfigures(outcome, vcount) ==
    IF outcome # "Ok"
    THEN [result |-> outcome,
          calls |-> <<Call("get_current_texture", 0, 0), Call("configure", 1, 1)>>]
    ELSE [result |-> "Ok",
          calls |-> << Call("get_current_texture", 0, 0),
                       Call("configure", 1, 1),
                       Call("create_view", 0, 0),
                       Call("create_command_encoder", 0, 0),
                       Call("begin_render_pass", 0, 0),
                       Call("set_pipeline", 0, 0),
                       Call("set_vertex_buffer", 0, 0),
                       Call("draw", vcount, 1),
                       Call("end_render_pass", 0, 0),
                       Call("finish", 0, 0),
                       Call("submit", 0, 0),
                       Call("present", 0, 0) >>]

render(outcome, vcount) ==
    IF outcome # "Ok"
    THEN [result |-> outcome, calls |-> <<Call("get_current_texture", 0, 0)>>]
    ELSE [result |-> "Ok",
          calls |-> << Call("get_current_texture", 0, 0),
                       Call("create_view", 0, 0),
                       Call("create_command_encoder", 0, 0),
                       Call("begin_render_pass", 0, 0),
                       Call("set_pipeline", 0, 0),
                       Call("set_vertex_buffer", 0, 0),
                       Call("draw", vcount, 1),
                       Call("end_render_pass", 0, 0),
                       Call("finish", 0, 0),
                       Call("submit", 0, 0),
                       Call("present", 0, 0) >>]

----------------------------------------------------------------------------
(* main up to the event loop: the options are parsed, then init_wgpu runs  *)
(* to its two await points and to its end, or aborts at an expect().        *)
(* gpu_opts and adapter_request model init_wgpu's parameter and the request *)
(* it builds; both are gone when init_wgpu returns.                         *)

NoEvent == Handled("None", 0, 0, "None", FALSE, FALSE, FALSE)

Init ==
    /\ \E args \in ArgLists : gpu_opts = parse_gpu_options(args)
    /\ phase = "start"
    /\ adapter_request = NoRequest
    /\ startup = <<>>
    /\ config = NoConfig
    /\ render_pipeline = NoPipeline
    /\ vertex_buffer = <<>>
    /\ vertex_count = 0
    /\ exiting = FALSE
    /\ redraw_requested = FALSE
    /\ calls = <<>>
    /\ last = NoEvent
    /\ prev = NoEvent
    /\ last_nonzero = <<0, 0>>
    /\ lost_streak = 0

CreateSurface(ok) ==
    /\ phase = "start"
    /\ phase' = after_step("surface", ok)
    /\ startup' = startup \o step_calls("create_surface", ok)
    /\ UNCHANGED <<gpu_opts, adapter_request, config, render_pipeline, vertex_buffer,
                   vertex_count, exiting, redraw_requested, calls, last, prev,
                   last_nonzero, lost_streak>>

RequestAdapter(ok) ==
    /\ phase = "surface"
    /\ adapter_request' = request_adapter_options(gpu_opts)
    /\ phase' = after_step("adapter", ok)
    /\ startup' = startup \o step_calls("request_adapter", ok)
    /\ UNCHANGED <<gpu_opts, config, render_pipeline, vertex_buffer,
                   vertex_count, exiting, redraw_requested, calls, last, prev,
                   last_nonzero, lost_streak>>

RequestDevice(ok) ==
    /\ phase = "adapter"
    /\ phase' = after_step("device", ok)
    /\ startup' = startup \o <<Call("get_info", 0, 0)>> \o step_calls("request_device", ok)
    /\ UNCHANGED <<gpu_opts, adapter_request, config, render_pipeline, vertex_buffer,
                   vertex_count, exiting, redraw_requested, calls, last, prev,
                   last_nonzero, lost_streak>>

FinishInit(sw, sh, formats, alpha_modes) ==
    /\ phase = "device"
    /\ LET c == initial_config(sw, sh, formats, alpha_modes)
       IN  /\ config' = c
           /\ render_pipeline' = build_pipeline(c)
           /\ calls' = <<Call("configure", c.width, c.height)>>
    /\ vertex_buffer' = vertices
    /\ vertex_count' = Len(vertices)
    /\ startup' = startup \o << Call("inner_size", 0, 0),
                                Call("get_capabilities", 0, 0),
                                Call("configure", 0, 0),
                                Call("create_shader_module", 0, 0),
                                Call("create_pipeline_layout", 0, 0),
                                Call("create_render_pipeline", 0, 0),
                                Call("create_buffer_init", 0, 0),
                                Call("Gfx", 0, 0) >>
    /\ last' = Handled("Init", sw, sh, "None", FALSE, FALSE, FALSE)
    /\ last_nonzero' = IF sw > 0 /\ sh > 0 THEN <<sw, sh>> ELSE <<0, 0>>
    /\ gpu_opts' = NoOptions
    /\ adapter_request' = NoRequest
    /\ phase' = "running"
    /\ UNCHANGED <<exiting, redraw_requested, prev, lost_streak>>

----------------------------------------------------------------------------
(* The event-loop closure of main *)

Report(w, h) == IF w > 0 /\ h > 0 THEN <<w, h>> ELSE last_nonzero

HandleCloseRequested ==
    /\ phase = "running"
    /\ ~exiting
    /\ exiting' = TRUE
    /\ calls' = <<>>
    /\ prev' = last
    /\ last' = Handled("CloseRequested", 0, 0, "None", FALSE, FALSE, TRUE)
    /\ UNCHANGED <<startup_state, config, redraw_requested, last_nonzero, lost_streak>>

HandleResized(w, h) ==
    /\ phase = "running"
    /\ ~exiting
    /\ LET r == resize(config, w, h)
       IN  /\ config' = r.config
           /\ calls' = r.calls
    /\ prev' = last
    /\ last' = Handled("Resized", w, h, "None", TRUE, FALSE, FALSE)
    /\ last_nonzero' = Report(w, h)
    /\ UNCHANGED <<startup_state, exiting, redraw_requested, lost_streak>>

on_render_result_no_oom(result) ==
    CASE result = "Ok" -> "nothing"
      [] result = "Lost" -> "resize"
      [] OTHER -> "eprintln"

on_render_result_all_recover(result) ==
    CASE result = "Ok" -> "nothing"
      [] result = "OutOfMemory" -> "exit"
      [] OTHER -> "resize"

on_render_result_swallow(result) ==
    CASE result = "Lost" -> "resize"
      [] result = "OutOfMemory" -> "exit"
      [] OTHER -> "nothing"

on_render_result_lost_exits(result) ==
    CASE result = "Ok" -> "nothing"
      [] result = "Lost" -> "exit"
      [] result = "OutOfMemory" -> "exit"
      [] OTHER -> "eprintln"

on_render_result_ceiling(result) ==
    CASE result = "Ok" -> "nothing"
      [] result = "Lost" -> (IF lost_streak >= 1 THEN "exit" ELSE "resize")
      [] result = "OutOfMemory" -> "exit"
      [] OTHER -> "eprintln"

on_render_result(result) ==
    CASE result = "Ok" -> "nothing"
      [] result = "Lost" -> "resize"
      [] result = "OutOfMemory" -> "exit"
      [] OTHER -> "eprintln"

recovery_size_stored(cfg, inner_w, inner_h) == <<cfg.width, cfg.height>>

recovery_size(cfg, inner_w, inner_h) == <<inner_w, inner_h>>

HandleRedrawRequested(outcome, sw, sh) ==
    /\ phase = "running"
    /\ ~exiting
    /\ redraw_requested' = FALSE
    /\ prev' = last
    /\ LET rr  == render(outcome, vertex_count)
           arm == on_render_result(rr.result)
           s   == recovery_size(config, sw, sh)
           r   == IF arm = "resize" THEN resize(config, s[1], s[2])
                  ELSE [config |-> config, calls |-> <<>>]
       IN  /\ config' = r.config
           /\ calls' = rr.calls \o r.calls
           /\ exiting' = IF arm = "exit" THEN TRUE ELSE exiting
           /\ last' = Handled("RedrawRequested",
                              IF arm = "resize" THEN sw ELSE 0,
                              IF arm = "resize" THEN sh ELSE 0,
                              outcome, arm = "resize", arm = "eprintln", arm = "exit")
           /\ last_nonzero' = IF arm = "resize" THEN Report(sw, sh) ELSE last_nonzero
           /\ lost_streak' = IF rr.result = "Lost"
                              THEN (IF lost_streak < MaxStreak THEN lost_streak + 1 ELSE MaxStreak)
                              ELSE 0
    /\ UNCHANGED startup_state

HandleAboutToWait_no_request ==
    /\ phase = "running"
    /\ ~exiting
    /\ calls' = <<>>
    /\ prev' = last
    /\ last' = Handled("AboutToWait", 0, 0, "None", FALSE, FALSE, FALSE)
    /\ UNCHANGED <<startup_state, config, exiting, redraw_requested, last_nonzero, lost_streak>>

HandleAboutToWait ==
    /\ phase = "running"
    /\ ~exiting
    /\ redraw_requested' = TRUE
    /\ calls' = <<>>
    /\ prev' = last
    /\ last' = Handled("AboutToWait", 0, 0, "None", FALSE, FALSE, FALSE)
    /\ UNCHANGED <<startup_state, config, exiting, last_nonzero, lost_streak>>

HandleOtherEvent ==
    /\ phase = "running"
    /\ ~exiting
    /\ calls' = <<>>
    /\ prev' = last
    /\ last' = Handled("Other", 0, 0, "None", FALSE, FALSE, FALSE)
    /\ UNCHANGED <<startup_state, config, exiting, redraw_requested, last_nonzero, lost_streak>>

\* window.inner_size() is read only on the arm that resizes
InnerSizes(outcome) ==
    IF on_render_result(outcome) = "resize" THEN Dims \X Dims ELSE {<<0, 0>>}

Next ==
    \/ \E ok \in BOOLEAN : CreateSurface(ok)
    \/ \E ok \in BOOLEAN : RequestAdapter(ok)
    \/ \E ok \in BOOLEAN : RequestDevice(ok)
    \/ \E sw \in Dims, sh \in Dims, formats \in CapsFormats, alpha_modes \in CapsAlphaModes :
          FinishInit(sw, sh, formats, alpha_modes)
    \/ HandleCloseRequested
    \/ \E w \in Dims, h \in Dims : HandleResized(w, h)
    \/ \E outcome \in Outcomes :
          \E s \in InnerSizes(outcome) : HandleRedrawRequested(outcome, s[1], s[2])
    \/ HandleAboutToWait
    \/ HandleOtherEvent

Spec == Init /\ [][Next]_vars

\* ControlFlow::Poll keeps the loop iterating, so AboutToWait keeps being
\* emitted, and a redraw requested with request_redraw is delivered.
DeliverRequestedRedraw ==
    /\ redraw_requested
    /\ \E outcome \in Outcomes :
          \E s \in InnerSizes(outcome) : HandleRedrawRequested(outcome, s[1], s[2])

SpecLive ==
    Spec /\ WF_vars(HandleAboutToWait) /\ WF_vars(DeliverRequestedRedraw)

----------------------------------------------------------------------------
(* Vocabulary of the properties *)

ConfigureCalls(s) == SelectSeq(s, LAMBDA c : c.op = "configure")

IsZeroSize(w, h) == w = 0 \/ h = 0

ResizeCalledWith(r) == r.resized

RedrawWith(r, outcome) == r.ev = "RedrawRequested" /\ r.outcome = outcome

FramePresented(s) == CountOp(s, "present") = 1

NoFrameWork(s) ==
    /\ CountOp(s, "begin_render_pass") = 0
    /\ CountOp(s, "draw") = 0
    /\ CountOp(s, "submit") = 0
    /\ CountOp(s, "present") = 0

SoftErrors == SurfaceErrors \ {"Lost", "Outdated", "OutOfMemory"}

FrameOrder == << "get_current_texture", "begin_render_pass", "set_pipeline",
                 "set_vertex_buffer", "draw", "end_render_pass", "submit", "present" >>

----------------------------------------------------------------------------
\* C1: every resize call resize(w,h) with w>0 and h>0, from any reachable
\* state (also directly after a zero-sized resize), leaves the stored
\* configuration with width = w and height = h, and reconfigures the surface
\* exactly once, with that size.
C1_ResizeApplies ==
    (ResizeCalledWith(last) /\ ~IsZeroSize(last.w, last.h)) =>
        /\ config.width = last.w
        /\ config.height = last.h
        /\ ConfigureCalls(calls) = <<Call("configure", last.w, last.h)>>

C1_Witness ==
    /\ last.ev = "Resized" /\ last.w > 0 /\ last.h > 0
    /\ prev.ev = "Resized" /\ prev.w = 0 /\ prev.h = 0
    /\ config.width = last.w /\ config.height = last.h

\* C2: a resize call with w=0 or h=0 leaves every field of the stored
\* configuration unchanged and performs no surface reconfiguration, however
\* often it is repeated.
C2_ZeroResizeNoOp ==
    /\ []((ResizeCalledWith(last) /\ IsZeroSize(last.w, last.h)) =>
              CountOp(calls, "configure") = 0)
    /\ [][(ResizeCalledWith(last') /\ IsZeroSize(last'.w, last'.h)) =>
              config' = config]_vars

C2_Witness ==
    /\ last.ev = "Resized" /\ IsZeroSize(last.w, last.h)
    /\ prev.ev = "Resized" /\ IsZeroSize(prev.w, prev.h)
    /\ calls = <<>>

\* C3: in every reachable state the stored configuration has width >= 1 and
\* height >= 1, a window of size 0 at construction yields a dimension floored
\* to 1, and no configure call is ever issued with a zero dimension.
C3_ConfigAtLeastOne ==
    phase = "running" =>
    /\ config.width >= 1
    /\ config.height >= 1
    /\ (last.ev = "Init" /\ last.w = 0) => config.width = 1
    /\ (last.ev = "Init" /\ last.h = 0) => config.height = 1
    /\ \A i \in 1..Len(calls) :
          calls[i].op = "configure" => (calls[i].a >= 1 /\ calls[i].b >= 1)

C3_Witness ==
    /\ last.ev = "Init" /\ last.w = 0 /\ last.h = 0
    /\ config.width = 1 /\ config.height = 1

\* C4: the stored width and height always equal the size of the most recent
\* window size report whose two dimensions were both non-zero (read at
\* construction, carried by a resize event, or read during Lost recovery).
C4_MatchesLastNonZero ==
    last_nonzero # <<0, 0>> =>
        (config.width = last_nonzero[1] /\ config.height = last_nonzero[2])

C4_Witness ==
    /\ last.ev = "Resized" /\ IsZeroSize(last.w, last.h)
    /\ prev.ev = "RedrawRequested" /\ prev.outcome = "Lost"
    /\ prev.w > 0 /\ prev.h > 0
    /\ last_nonzero = <<prev.w, prev.h>>

\* C5: an acquisition failure of kind Lost and one of kind Outdated are both
\* handled as recoverable: the resize path is taken, the frame is not
\* rendered, the error is not merely logged and no exit is raised.
C5_LostOutdatedRecoverable ==
    (last.ev = "RedrawRequested" /\ last.outcome \in {"Lost", "Outdated"}) =>
        /\ last.resized
        /\ ~last.logged
        /\ ~last.exit_called
        /\ NoFrameWork(calls)

C7_OutOfMemoryTerminal ==
    /\ [](RedrawWith(last, "OutOfMemory") =>
            /\ exiting
            /\ last.exit_called
            /\ ~last.resized
            /\ CountOp(calls, "configure") = 0
            /\ NoFrameWork(calls))
    /\ [][RedrawWith(last, "OutOfMemory") => UNCHANGED vars]_vars

C7_Witness ==
    /\ RedrawWith(last, "OutOfMemory") /\ exiting
    /\ RedrawWith(prev, "Ok")

\* C8: an acquisition failure of any kind other than Lost, Outdated and
\* OutOfMemory is logged, the frame is skipped, the stored configuration is
\* unchanged, no reconfigure and no exit occur, and the next redraw request
\* is dispatched and, when its acquisition succeeds, presents a frame.
C8_SoftErrorLogged ==
    /\ []((last.ev = "RedrawRequested" /\ last.outcome \in SoftErrors) =>
            /\ last.logged
            /\ NoFrameWork(calls)
            /\ ~last.resized
            /\ CountOp(calls, "configure") = 0
            /\ ~last.exit_called
            /\ ~exiting
            /\ ENABLED HandleRedrawRequested("Ok", 0, 0))
    /\ [][(last'.ev = "RedrawRequested" /\ last'.outcome \in SoftErrors) =>
              config' = config]_vars
    /\ [][(last.ev = "RedrawRequested" /\ last.outcome \in SoftErrors
             /\ RedrawWith(last', "Ok")) => FramePresented(calls')]_vars

C8_Witness ==
    /\ RedrawWith(last, "Ok") /\ FramePresented(calls)
    /\ RedrawWith(prev, "Timeout") /\ prev.logged

\* C9: the redraw handler maps every acquisition outcome to exactly one of
\* success (a frame is presented), recoverable (resize is called), fatal
\* (exit is raised) and soft-logged (the error is printed); it accepts every
\* outcome while the loop runs.
C9_ClassificationTotal ==
    /\ (last.ev = "RedrawRequested") =>
          Cardinality({k \in {"success", "recoverable", "fatal", "soft"} :
                          \/ k = "success" /\ FramePresented(calls)
                          \/ k = "recoverable" /\ last.resized
                          \/ k = "fatal" /\ last.exit_called
                          \/ k = "soft" /\ last.logged}) = 1
    /\ (phase = "running" /\ ~exiting) =>
          \A o \in Outcomes : ENABLED HandleRedrawRequested(o, 0, 0)

C9_Witness ==
    /\ RedrawWith(last, "Other") /\ last.logged
    /\ RedrawWith(prev, "Lost") /\ prev.resized

\* C10: a frame whose acquisition succeeds performs, each exactly once and
\* in this order: acquire, begin render pass, bind pipeline, bind vertex
\* buffer, draw, close the render pass, submit, present; present is the last
\* call of the handler, after which no frame is in flight.
C10_FrameStepOrder ==
    RedrawWith(last, "Ok") =>
        /\ \A i \in 1..Len(FrameOrder) : CountOp(calls, FrameOrder[i]) = 1
        /\ \A i \in 1..Len(FrameOrder), j \in 1..Len(FrameOrder) :
              i < j => IndexOf(calls, FrameOrder[i]) < IndexOf(calls, FrameOrder[j])
        /\ calls[Len(calls)].op = "present"

C10_Witness ==
    /\ RedrawWith(last, "Ok")
    /\ CountOp(calls, "submit") = 1
    /\ CountOp(calls, "present") = 1
    /\ redraw_requested = FALSE /\ prev.ev = "AboutToWait"

\* C11: for the lifetime of the context the vertex count is 3 and the vertex
\* buffer holds the fixed triangle, unchanged by any handler; a render call
\* issues at most one draw, and a successful one exactly one draw of 3
\* vertices and 1 instance.
C11_TriangleFixed ==
    /\ [](phase = "running" =>
            /\ vertex_count = 3
            /\ vertex_buffer = <<<<0, 6>>, <<-6, -6>>, <<6, -6>>>>
            /\ last.ev = "RedrawRequested" => CountOp(calls, "draw") <= 1
            /\ RedrawWith(last, "Ok") =>
                  SelectSeq(calls, LAMBDA c : c.op = "draw") = <<Call("draw", 3, 1)>>)
    /\ [][phase = "running" =>
            (vertex_buffer' = vertex_buffer /\ vertex_count' = vertex_count)]_vars

C11_Witness ==
    /\ RedrawWith(last, "Ok") /\ RedrawWith(prev, "Lost")
    /\ CountOp(calls, "draw") = 1
    /\ vertex_count = 3

\* C12: after a resize event with a zero dimension, a redraw request that
\* arrives before any resize with both dimensions non-zero performs no
\* acquire, draw, submit or present and no reconfiguration.
C12_SkippedWhileMinimized ==
    (last.ev = "RedrawRequested" /\ prev.ev = "Resized" /\ IsZeroSize(prev.w, prev.h)) =>
        /\ CountOp(calls, "get_current_texture") = 0
        /\ NoFrameWork(calls)
        /\ CountOp(calls, "configure") = 0

\* C13: whenever the adapter has been requested, the request's power
\* preference is LowPower exactly when low_power is set and HighPerformance
\* otherwise, and its force-fallback field equals fallback; neither flag
\* influences the other's field.
C13_AdapterRequestFromFlags ==
    adapter_request # NoRequest =>
        /\ (adapter_request.power_preference = "LowPower") <=> gpu_opts.low_power
        /\ (adapter_request.power_preference = "HighPerformance") <=> ~gpu_opts.low_power
        /\ adapter_request.force_fallback_adapter = gpu_opts.fallback

C13_Witness ==
    /\ phase = "adapter"
    /\ gpu_opts.fallback /\ ~gpu_opts.low_power
    /\ adapter_request.force_fallback_adapter
    /\ adapter_request.power_preference = "HighPerformance"

\* C14: while the loop runs, the exit signal is raised only by a
\* close-request or by an OutOfMemory acquisition failure; every other
\* handler leaves it down, and a close-request always raises it.
C14_ExitOnlyOnCloseOrOutOfMemory ==
    /\ [][(~exiting /\ exiting') =>
            (last'.ev = "CloseRequested" \/ RedrawWith(last', "OutOfMemory"))]_vars
    /\ [](exiting => (last.ev = "CloseRequested" \/ RedrawWith(last, "OutOfMemory")))
    /\ [](last.ev = "CloseRequested" => exiting)
    /\ []((phase = "running" /\ ~exiting) => ENABLED HandleCloseRequested)

C14_Witness ==
    /\ last.ev = "CloseRequested" /\ exiting
    /\ RedrawWith(prev, "Lost")

\* C15: the startup steps happen in a fixed order, each at most once: the
\* surface before the adapter request, the adapter before the device
\* request, the surface configuration before the pipeline; handlers run only
\* after the context was constructed, which happens exactly once; a failed
\* surface creation, adapter request or device request aborts without retry
\* and no handler ever runs.
StartupOps ==
    {"create_surface", "request_adapter", "get_info", "request_device", "inner_size",
     "get_capabilities", "configure", "create_shader_module", "create_pipeline_layout",
     "create_render_pipeline", "create_buffer_init", "Gfx", "panic"}

Before(s, a, b) ==
    CountOp(s, b) = 1 => (CountOp(s, a) = 1 /\ IndexOf(s, a) < IndexOf(s, b))

C15_StartupOrder ==
    /\ [](/\ \A op \in StartupOps : CountOp(startup, op) <= 1
          /\ Before(startup, "create_surface", "request_adapter")
          /\ Before(startup, "request_adapter", "request_device")
          /\ Before(startup, "request_device", "configure")
          /\ Before(startup, "configure", "create_render_pipeline")
          /\ Before(startup, "create_render_pipeline", "Gfx")
          /\ (phase = "running") <=> (CountOp(startup, "Gfx") = 1)
          /\ last.ev \notin {"None", "Init"} => phase = "running"
          /\ CountOp(startup, "panic") = 1 =>
                /\ phase = "aborted"
                /\ startup[Len(startup)].op = "panic"
                /\ last = NoEvent
                /\ calls = <<>>)
    /\ [][phase = "aborted" => UNCHANGED vars]_vars
    /\ [][phase = "running" => (phase' = "running" /\ startup' = startup)]_vars

C15_Witness ==
    /\ phase = "running"
    /\ CountOp(startup, "Gfx") = 1
    /\ last.ev = "Resized" /\ prev.ev = "Init"

\* C16: on a tick whose acquisition fails, whatever the kind, no render pass
\* is begun and nothing is drawn, submitted or presented; in every state the
\* last handler submitted exactly as often as it presented.
C16_FrameWholesale ==
    /\ (last.ev = "RedrawRequested" /\ last.outcome # "Ok") => NoFrameWork(calls)
    /\ CountOp(calls, "submit") = CountOp(calls, "present")
    /\ CountOp(calls, "submit") <= 1

C16_Witness ==
    /\ RedrawWith(last, "Outdated")
    /\ calls = <<Call("get_current_texture", 0, 0)>>
    /\ RedrawWith(prev, "Ok")

\* C17: once the context exists, the pipeline's color target format equals
\* the configured surface format, the presentation mode is Fifo and the
\* frame latency 2, and no handler changes the format, presentation mode,
\* alpha mode, usage or frame latency, or replaces the pipeline.
C17_FormatFixed ==
    /\ [](phase = "running" =>
            /\ render_pipeline.format = config.format
            /\ config.present_mode = "Fifo"
            /\ config.desired_maximum_frame_latency = 2
            /\ CountOp(calls, "create_render_pipeline") = 0)
    /\ [][phase = "running" =>
            /\ config'.format = config.format
            /\ config'.present_mode = config.present_mode
            /\ config'.alpha_mode = config.alpha_mode
            /\ config'.usage = config.usage
            /\ config'.desired_maximum_frame_latency = config.desired_maximum_frame_latency
            /\ render_pipeline' = render_pipeline]_vars

C17_Witness ==
    /\ phase = "running"
    /\ config.format = "Bgra8Unorm" /\ config.alpha_mode = "Auto"
    /\ render_pipeline.format = "Bgra8Unorm"
    /\ RedrawWith(last, "Lost") /\ last.w > 0 /\ last.h > 0

\* C18: a redraw handler calls render exactly once, AboutToWait leaves a
\* redraw requested, and a successful attempt presents a frame; under
\* fairness of the event loop, as long as the loop runs and exit was not
\* raised, requested redraws are delivered and requested again for ever.
C18_RenderAgainAndAgain ==
    /\ [](last.ev = "RedrawRequested" => CountOp(calls, "get_current_texture") = 1)
    /\ [](last.ev = "AboutToWait" => redraw_requested)
    /\ [](RedrawWith(last, "Ok") => FramePresented(calls))
    /\ []<>(phase # "running" \/ exiting \/ redraw_requested)
    /\ []<>(phase # "running" \/ exiting \/ (~redraw_requested /\ last.ev = "RedrawRequested"))

C18_Witness ==
    /\ RedrawWith(last, "Ok") /\ FramePresented(calls)
    /\ prev.ev = "AboutToWait"
    /\ ~redraw_requested /\ ~exiting
    /\ lost_streak = 0 /\ last_nonzero = <<0, 0>>

\* C19: render itself issues no configure call and changes no field of the
\* stored configuration, whether acquisition succeeds or fails; the only
\* configure call of a redraw tick is the one of the caller's resize.
C19_RenderLeavesConfig ==
    /\ []((last.ev = "RedrawRequested" /\ ~last.resized) => CountOp(calls, "configure") = 0)
    /\ []((last.ev = "RedrawRequested" /\ last.resized) =>
            /\ calls[1].op = "get_current_texture"
            /\ ConfigureCalls(calls) =
                  (IF IsZeroSize(last.w, last.h) THEN <<>>
                   ELSE <<Call("configure", last.w, last.h)>>))
    /\ [][(last'.ev = "RedrawRequested" /\ ~last'.resized) => config' = config]_vars
    /\ [][(last'.ev = "RedrawRequested" /\ last'.resized) =>
            config' = resize(config, last'.w, last'.h).config]_vars

C19_Witness ==
    /\ RedrawWith(last, "Ok")
    /\ prev.ev = "Resized" /\ prev.w > 0 /\ prev.h > 0
    /\ config.width = prev.w /\ config.height = prev.h

\* C20: however many Lost acquisition failures came in a row, a Lost tick
\* does not raise exit and takes the same recovery step, a further Lost
\* redraw can be handled, and the first later redraw whose acquisition
\* succeeds presents a frame.
C20_NoRetryCeiling ==
    /\ [](RedrawWith(last, "Lost") =>
            /\ lost_streak >= 1
            /\ ~exiting
            /\ ~last.exit_called
            /\ last.resized
            /\ ENABLED HandleRedrawRequested("Lost", 1, 1))
    /\ [][(lost_streak >= 1 /\ RedrawWith(last', "Ok")) =>
            (FramePresented(calls') /\ ~exiting')]_vars

C20_Witness ==
    /\ lost_streak = MaxStreak
    /\ RedrawWith(last, "Lost") /\ RedrawWith(prev, "Lost")
    /\ ~exiting

====
